---- MODULE Spec2Model ----
(***************************************************************************)
(* check_varnish_health.py: a nagios probe that samples varnishstat        *)
(* counters and reports a growth rate (delta since the previous run, kept  *)
(* in a nagiosplugin.Cookie state file) or a percentage.                   *)
(*                                                                         *)
(* Every run of the probe is a short-lived process p.  A run is modelled   *)
(* statement by statement: main() -> CheckVarnishHealthContext.__init__ -> *)
(* probe() -> metric method -> _fetch_varnishstats -> _load_varnishstats_  *)
(* json -> _get_growth_rate / _get_percentage -> nag.Metric.               *)
(***************************************************************************)
EXTENDS Integers, Sequences, FiniteSets, TLC

(***************************************************************************)
(* Bounds of the model.                                                    *)
(***************************************************************************)
\* largest value varnishstat reports for one counter field
MaxVal == 2
\* largest value varnishstat reports for MAIN.cache_hit and MAIN.cache_miss
MaxCount == 4
\* largest value varnishstat reports for one MAIN.client_req_4xx field
MaxErr == 1
\* time units the clock may advance while a run is blocked on varnishstat
MaxElapsed == 4

(***************************************************************************)
(* Program constants.                                                      *)
(***************************************************************************)
\* process.wait(timeout=3)
WaitTimeout == 3

(***************************************************************************)
(* Python values.  An optional value (None or a value) is a sequence of    *)
(* length 0 or 1; a dict is a set of <<key, value>> pairs with unique keys.*)
(***************************************************************************)
None == << >>
Some(v) == << v >>

DictGet(d, k) == IF \E e \in d : e[1] = k
                 THEN Some((CHOOSE e \in d : e[1] = k)[2])
                 ELSE None

DictSet(d, k, v) == {e \in d : e[1] # k} \cup {<<k, v>>}

RECURSIVE SumValues(_)
\* sum(d.values())
SumValues(d) == IF d = {} THEN 0
                ELSE LET e == CHOOSE x \in d : TRUE
                     IN e[2] + SumValues(d \ {e})

(***************************************************************************)
(* The metric registry.                                                    *)
(***************************************************************************)
\* keys of CheckVarnishHealthContext.fmt_helper
fmt_helper == {
    "client_good_request_rate", "client_bad_request_rate", "cache_hitrate_pct",
    "cache_hitforpass_rate", "cached_objects_expired_rate",
    "cached_objects_nuked_rate", "threads_creation_rate", "threads_failed_rate",
    "threads_failed_at_limit_rate", "session_queue_rate", "backend_request_rate",
    "backend_failed_request_rate", "backend_connection_rate",
    "backend_connection_saturation_rate", "backend_unattempted_connections_rate" }

\* the metric methods of class CheckVarnishHealth (what operator.methodcaller
\* finds for a registry name)
MetricMethods == fmt_helper

\* names that are not in the registry: one that is no attribute of the resource
\* at all and one that is a (non-metric) method of it
UnknownNames == { "no_such_metric", "_create_tmp_dir" }

\* the field list each metric method hands to _fetch_varnishstats
RequiredFields(m) ==
    CASE m = "client_good_request_rate" -> {"MAIN.client_req"}
      [] m = "client_bad_request_rate" ->
            {"MAIN.client_req_400", "MAIN.client_req_411",
             "MAIN.client_req_413", "MAIN.client_req_417"}
      [] m = "cache_hitrate_pct" -> {"MAIN.cache_hit", "MAIN.cache_miss"}
      [] m = "cache_hitforpass_rate" -> {"MAIN.cache_hitpass"}
      [] m = "cached_objects_expired_rate" -> {"MAIN.n_expired"}
      [] m = "cached_objects_nuked_rate" -> {"MAIN.n_lru_nuked"}
      [] m = "threads_failed_rate" -> {"MAIN.threads_failed"}
      [] m = "threads_creation_rate" -> {"MAIN.threads_created"}
      [] m = "threads_failed_at_limit_rate" -> {"MAIN.threads_limited"}
      [] m = "session_queue_rate" -> {"MAIN.thread_queue_len"}
      [] m = "backend_request_rate" -> {"MAIN.backend_req"}
      [] m = "backend_failed_request_rate" -> {"MAIN.backend_req"}
      [] m = "backend_connection_rate" -> {"MAIN.backend_conn"}
      [] m = "backend_connection_saturation_rate" -> {"MAIN.backend_busy"}
      [] m = "backend_unattempted_connections_rate" -> {"MAIN.backend_unhealthy"}
      [] OTHER -> {}

\* every metric, the percentage and the gauge too, taken through
\* _get_growth_rate
Derivation_allgrowth(m) == "growth"

\* session_queue_rate taken through _get_growth_rate like the other rates
Derivation_queuegrowth(m) ==
    IF m = "cache_hitrate_pct" THEN "pct" ELSE "growth"

\* how the metric method derives "value": through _get_growth_rate ("growth"),
\* through _get_percentage ("pct"), or as the fetched sum itself ("raw")
Derivation(m) ==
    CASE m = "cache_hitrate_pct" -> "pct"
      [] m = "session_queue_rate" -> "raw"
      [] OTHER -> "growth"

\* "uom" and the default "min"/"max" of the dict the metric method returns
DefaultUom(m) == IF m = "cache_hitrate_pct" THEN "%" ELSE "c"
DefaultMin(m) == Some(0)
DefaultMax(m) == IF m = "cache_hitrate_pct" THEN Some(100) ELSE None

\* the metrics named *_rate: the spec's rate kind (raw_rate and summed_rate)
RateMetrics == fmt_helper \ {"cache_hitrate_pct"}


(***************************************************************************)
(* Inputs of a run and of its environment.                                 *)
(***************************************************************************)
\* the process slots: each run of the probe is a process of its own
Procs == {"p1", "p2"}

\* --varnish-instance-name: absent (None) or a name
Instances == { None, Some("default"), Some("varnish1") }

\* the sets of metric names one monitoring configuration asks for; together
\* they cover the whole registry and the unknown names
Suites == {
    {"client_good_request_rate", "session_queue_rate", "no_such_metric"},
    {"client_bad_request_rate", "_create_tmp_dir"},
    {"cache_hitrate_pct", "cache_hitforpass_rate"},
    {"backend_request_rate", "backend_failed_request_rate"},
    {"cached_objects_expired_rate"},
    {"cached_objects_nuked_rate"},
    {"threads_creation_rate"},
    {"threads_failed_rate"},
    {"threads_failed_at_limit_rate"},
    {"backend_connection_rate"},
    {"backend_connection_saturation_rate"},
    {"backend_unattempted_connections_rate"} }

AllNames == fmt_helper \cup UnknownNames

\* varnishstat -j prints one JSON object: a "timestamp" string and one
\* {"value": n, ...} object per counter it knows among the requested ones.
\* An entry is <<key, n>>; the timestamp, whose value is no counter object,
\* is <<"timestamp", -1>>.
Timestamp == <<"timestamp", -1>>

\* the values the model lets a counter field take
FieldMax(f) ==
    IF f \in {"MAIN.cache_hit", "MAIN.cache_miss"} THEN MaxCount
    ELSE IF f \in RequiredFields("client_bad_request_rate") THEN MaxErr
    ELSE MaxVal

WellFormedBodies(fields) ==
    UNION { { {<<f, vals[f]>> : f \in present} \cup {Timestamp}
              : vals \in { v \in [present -> 0..(MaxCount + MaxErr + MaxVal)]
                            : \A f \in present : v[f] <= FieldMax(f) } }
            : present \in SUBSET fields }

\* what the external process can leave on stdout: text that is no JSON, or
\* a JSON object
Stdouts(fields) ==
    { [json |-> FALSE, body |-> {}] }
      \cup { [json |-> TRUE, body |-> b] : b \in WellFormedBodies(fields) }

\* the kinds of output: none yet, a JSON object, text that is no JSON
OutputKind(out) == IF out.json THEN "json" ELSE "garbage"

(***************************************************************************)
(* State.                                                                  *)
(***************************************************************************)
VARIABLES
    suite,          \* the metric names this monitoring configuration runs
    files,          \* the state files: path -> None or Some(dict)
    dirs,           \* the directories that exist below --tmpdir
    lock,           \* path -> the runs holding the Cookie's flock on it
    pc,             \* where each run stands
    metric,         \* self.metric
    instance,       \* self.varnish_instance_name
    minarg,         \* self.min
    maxarg,         \* self.max
    elapsed,        \* time spent so far in process.communicate()
    stdout,         \* stdout_string, or None outside _fetch_varnishstats
    output,         \* the kind of output varnishstat gave this run
    exit_status,    \* what process.wait() returned
    stats,          \* the dict _load_varnishstats_json returned
    current_value,  \* the fetched counter sum
    cookie,         \* the open nag.Cookie's data
    metric_value,   \* what _get_growth_rate / _get_percentage returned
    result,         \* the nag.Metric probe() returned, or None
    error,          \* the exception that ended the run, or ""
    popens,         \* how often this run started varnishstat
    opens,          \* how often this run opened a state file
    fieldlist,      \* the fields this run asked varnishstat for
    arglist,        \* the command line this run started varnishstat with
    files0,         \* the state files as they were when the run started
    dirs0,          \* the directories as they were when the run started
    overlapped,     \* whether the run was in flight together with another
    last_sample,    \* the fetched sum of the last run that returned a rate
    first_sample,   \* the fetched sum of the first run that returned a rate
    sum_reported,   \* the sum of the rates returned so far
    settled,        \* a run that overlapped no other has returned a rate
                    \* since the last overlap
    group,          \* the fetched sums of the runs that returned a rate
                    \* since the store was last used by one run alone
    counter         \* the monitored counter of the varnish instance

vars == << suite, files, dirs, lock, pc, metric, instance, minarg, maxarg,
           elapsed, stdout, output, exit_status, stats, current_value,
           cookie, metric_value, result, error, popens, opens, fieldlist,
           arglist, files0, dirs0, overlapped, last_sample, first_sample,
           sum_reported, settled, group, counter >>

run_vars == << metric, instance, minarg, maxarg >>
fetch_vars == << elapsed, stdout, output, exit_status, stats, fieldlist,
                 arglist, popens >>
store_vars == << files, dirs, lock >>
cookie_vars == << cookie, opens >>
\* what the history of the runs records, for the properties only
hist_vars == << overlapped, last_sample, first_sample, sum_reported, settled,
                group, counter >>
ghost_vars == << files0, dirs0, hist_vars >>

(***************************************************************************)
(* The places of the persisted state.                                      *)
(***************************************************************************)
\* Python truth value of an optional string
Truthy(opt) == opt # None /\ opt[1] # ""

\* Python truth value of an optional number
TruthyNum(opt) == opt # None /\ opt[1] # 0

\* self.tmpdir = join(tmpdir, name if name else "default"): the directory
\* below --tmpdir
TmpDirOf(inst) == IF Truthy(inst) THEN inst[1] ELSE "default"

\* a location that ignores the metric name
RecordOf_shared(inst, m) ==
    [file |-> << TmpDirOf(inst), "state" >>, key |-> "last_value"]

\* where a run keeps its baseline: the state file
\* join(self.tmpdir, self.metric) and, in it, the key self.metric
RecordOf(inst, m) ==
    [file |-> << TmpDirOf(inst), m >>, key |-> m]

\* the state files the runs of a configuration can name
Paths(names) == { RecordOf(i, m).file : i \in Instances, m \in names }

\* the persisted baseline of (instance, metric): None when there is no record
Baseline(fs, inst, m) ==
    LET r == RecordOf(inst, m)
    IN IF fs[r.file] = None THEN None ELSE DictGet(fs[r.file][1], r.key)

NoFiles == [path \in Paths(suite) |-> None]

(***************************************************************************)
(* The pure steps of the program.                                          *)
(***************************************************************************)
\* a parser that takes any text for an empty object
loads_lenient(out) == Some(out.body)

\* json.loads(varnish_output): the parsed object, or None for JSONDecodeError
loads(out) == IF out.json THEN Some(out.body) ELSE None

\* {field: value["value"] for (field, value) in result_dict.items()
\*  if field in fieldlist}
FilterFields(body, fl) == { e \in body : e[1] \in fl }

\* round(x) to the nearest integer, ties to the even one, for x = n / d
RoundHalfEven(n, d) ==
    LET q == n \div d
        r == n % d
    IN IF 2 * r < d THEN q
       ELSE IF 2 * r > d THEN q + 1
       ELSE IF q % 2 = 0 THEN q ELSE q + 1

\* a percentage that cuts the third decimal off
GetPercentage_trunc(part, total) ==
    IF total = 0 THEN 0 ELSE (part * 10000) \div total

\* _get_percentage: round(part / total * 100, 2), 0 on ZeroDivisionError.
\* The result is in hundredths of a percent (2500 is 25.0).  For integer
\* parts and totals below 32 the quotient is never halfway between two
\* hundredths, so the float's rounding is the exact quotient's.
GetPercentage(part, total) ==
    IF total = 0 THEN 0 ELSE RoundHalfEven(part * 10000, total)

\* a growth rate that reports the whole counter on the first run
GrowthRate_nofirst(historic_value, cur) ==
    IF historic_value # None THEN cur - historic_value[1] ELSE cur

\* a growth rate that hides counter resets
GrowthRate_clamped(historic_value, cur) ==
    IF historic_value # None
    THEN (IF cur < historic_value[1] THEN 0 ELSE cur - historic_value[1])
    ELSE 0

\* the change taken the wrong way round
GrowthRate_reversed(historic_value, cur) ==
    IF historic_value # None THEN historic_value[1] - cur ELSE 0

\* the size of the change, whatever its direction
GrowthRate_abs(historic_value, cur) ==
    IF historic_value # None
    THEN (IF cur < historic_value[1] THEN historic_value[1] - cur
                                     ELSE cur - historic_value[1])
    ELSE 0

\* _get_growth_rate: metric_value from cookie.get(self.metric)
GrowthRate(historic_value, cur) ==
    IF historic_value # None THEN cur - historic_value[1] ELSE 0

\* a context that takes any name
ContextAccepts_any(name) == TRUE

\* CheckVarnishHealthContext.__init__: fmt_helper[name] or ValueError
ContextAccepts(name) == name \in fmt_helper

\* cookie.commit(): the file holds the cookie's data
\* a commit that never reaches the file
CommitStore_lost(fs, path, data) == fs

CommitStore(fs, path, data) == [fs EXCEPT ![path] = Some(data)]

\* a state file that holds the beginning of a JSON text only, which
\* Cookie.open cannot load
Partial == << {}, {} >>

\* Cookie.commit writes in place: it truncates the file and then writes the
\* JSON text, so a commit that is cut short leaves the old text (nothing
\* done yet), an empty file, the beginning of the new text, or the new text
CutShort(fs, path, data) ==
    { fs,
      [fs EXCEPT ![path] = Some({})],
      [fs EXCEPT ![path] = Partial],
      CommitStore(fs, path, data) }

\* the exit statuses of varnishstat the model draws from
ExitStatuses == { 0, 1 }

\* a command line that asks for one field more than the metric needs
ArgList_broader(inst, fl) ==
    [j |-> TRUE, once |-> TRUE, n |-> inst, f |-> fl \cup {"MAIN.uptime"}]

\* _fetch_varnishstats: arglist = [path, "-j", "-1"], "-n" name when the
\* instance name is not None, and "-f" field for every field of fieldlist
ArgList(inst, fl) ==
    [j |-> TRUE, once |-> TRUE, n |-> inst, f |-> fl]

NoArgList == [j |-> FALSE, once |-> FALSE, n |-> None, f |-> {}]

(***************************************************************************)
(* Init: a fresh installation, no run in flight.                           *)
(***************************************************************************)
Init ==
    /\ suite \in Suites
    /\ files = [path \in Paths(suite) |-> None]
    /\ dirs = {}
    /\ lock = {}
    /\ pc = [p \in Procs |-> "idle"]
    /\ metric = [p \in Procs |-> ""]
    /\ instance = [p \in Procs |-> None]
    /\ minarg = [p \in Procs |-> None]
    /\ maxarg = [p \in Procs |-> None]
    /\ elapsed = [p \in Procs |-> 0]
    /\ stdout = [p \in Procs |-> None]
    /\ output = [p \in Procs |-> ""]
    /\ exit_status = [p \in Procs |-> None]
    /\ stats = [p \in Procs |-> {}]
    /\ current_value = [p \in Procs |-> 0]
    /\ cookie = [p \in Procs |-> {}]
    /\ metric_value = [p \in Procs |-> 0]
    /\ result = [p \in Procs |-> None]
    /\ error = [p \in Procs |-> ""]
    /\ popens = [p \in Procs |-> 0]
    /\ opens = [p \in Procs |-> 0]
    /\ fieldlist = [p \in Procs |-> {}]
    /\ arglist = [p \in Procs |-> NoArgList]
    /\ files0 = [p \in Procs |-> NoFiles]
    /\ dirs0 = [p \in Procs |-> {}]
    /\ overlapped = [p \in Procs |-> FALSE]
    /\ last_sample = None
    /\ first_sample = None
    /\ sum_reported = 0
    /\ settled = FALSE
    /\ group = {}
    /\ counter = 0

\* the run ends with an exception
Raise(p, exc) ==
    /\ pc' = [pc EXCEPT ![p] = "failed"]
    /\ error' = [error EXCEPT ![p] = exc]

Goto(p, label) ==
    /\ pc' = [pc EXCEPT ![p] = label]
    /\ UNCHANGED error

(***************************************************************************)
(* main(): parse_arguments() and CheckVarnishHealth.__init__.  A new       *)
(* process starts with the given arguments.                                *)
(***************************************************************************)
Main(p, m, inst, lo, hi) ==
    /\ pc[p] = "idle"
    /\ metric' = [metric EXCEPT ![p] = m]
    /\ instance' = [instance EXCEPT ![p] = inst]
    /\ minarg' = [minarg EXCEPT ![p] = lo]
    /\ maxarg' = [maxarg EXCEPT ![p] = hi]
    /\ files0' = [files0 EXCEPT ![p] = files]
    /\ dirs0' = [dirs0 EXCEPT ![p] = dirs]
    /\ Goto(p, "context")
    /\ UNCHANGED << suite, store_vars, fetch_vars, cookie_vars, current_value,
                    metric_value, result >>

(***************************************************************************)
(* main(): CheckVarnishHealthContext(args.metric, ...).                    *)
(***************************************************************************)
NewContext(p) ==
    /\ pc[p] = "context"
    /\ IF ContextAccepts(metric[p])
       THEN Goto(p, "probe")
       ELSE Raise(p, "ValueError")
    /\ UNCHANGED << suite, store_vars, run_vars, fetch_vars, cookie_vars,
                    current_value, metric_value, result, ghost_vars >>

(***************************************************************************)
(* probe(): operator.methodcaller(self.metric)(self), up to the metric     *)
(* method's call of _fetch_varnishstats.  A name that is no attribute      *)
(* raises AttributeError; _create_tmp_dir is a method that returns None,   *)
(* on which probe() then raises TypeError.                                 *)
(***************************************************************************)
Probe(p) ==
    /\ pc[p] = "probe"
    /\ IF metric[p] \in MetricMethods
       THEN /\ fieldlist' = [fieldlist EXCEPT ![p] = RequiredFields(metric[p])]
            /\ Goto(p, "popen")
            /\ UNCHANGED dirs
       ELSE IF metric[p] = "_create_tmp_dir"
       THEN /\ \/ /\ dirs' = dirs \cup {TmpDirOf(instance[p])}
                  /\ Raise(p, "TypeError")
               \/ /\ TmpDirOf(instance[p]) \notin dirs
                  /\ dirs' = dirs
                  /\ Raise(p, "PermissionError")
            /\ UNCHANGED fieldlist
       ELSE /\ Raise(p, "AttributeError")
            /\ UNCHANGED << dirs, fieldlist >>
    /\ UNCHANGED << suite, files, lock, run_vars, elapsed, stdout, output,
                    exit_status, stats, popens, arglist, cookie_vars,
                    current_value, metric_value, result, ghost_vars >>

(***************************************************************************)
(* _fetch_varnishstats: Popen(arglist, stdout=PIPE).                       *)
(***************************************************************************)
Popen(p) ==
    /\ pc[p] = "popen"
    /\ popens' = [popens EXCEPT ![p] = @ + 1]
    /\ arglist' = [arglist EXCEPT ![p] = ArgList(instance[p], fieldlist[p])]
    /\ elapsed' = [elapsed EXCEPT ![p] = 0]
    /\ Goto(p, "communicate")
    /\ UNCHANGED << suite, store_vars, run_vars, stdout, output, exit_status,
                    stats, fieldlist, cookie_vars, current_value, metric_value,
                    result, ghost_vars >>

(***************************************************************************)
(* A time unit passes while the run is blocked in process.communicate(),   *)
(* which is called without a timeout.                                      *)
(***************************************************************************)
Tick(p) ==
    /\ pc[p] = "communicate"
    /\ elapsed[p] < MaxElapsed
    /\ elapsed' = [elapsed EXCEPT ![p] = @ + 1]
    /\ UNCHANGED << suite, store_vars, run_vars, pc, error, stdout, output,
                    exit_status, stats, fieldlist, arglist, popens, cookie_vars,
                    current_value, metric_value, result, ghost_vars >>

(***************************************************************************)
(* _fetch_varnishstats: process.communicate() returns once varnishstat has *)
(* closed its output and exited; stdout.decode().                          *)
(***************************************************************************)
Communicate(p) ==
    /\ pc[p] = "communicate"
    /\ \E out \in Stdouts(arglist[p].f) :
          /\ stdout' = [stdout EXCEPT ![p] = Some(out)]
          /\ output' = [output EXCEPT ![p] = OutputKind(out)]
    /\ elapsed' = [elapsed EXCEPT ![p] = 0]
    /\ Goto(p, "wait")
    /\ UNCHANGED << suite, store_vars, run_vars, exit_status, stats,
                    fieldlist, arglist, popens, cookie_vars, current_value,
                    metric_value, result, ghost_vars >>

(***************************************************************************)
(* _fetch_varnishstats: exit_status = process.wait(timeout=3).  The        *)
(* process has ended when communicate() returns, so wait() returns its     *)
(* status at once; exit_status is not looked at afterwards.                *)
(***************************************************************************)
Wait(p) ==
    /\ pc[p] = "wait"
    /\ \E st \in ExitStatuses :
          exit_status' = [exit_status EXCEPT ![p] = Some(st)]
    /\ Goto(p, "load")
    /\ UNCHANGED << suite, store_vars, run_vars, elapsed, stdout, output,
                    stats, fieldlist, arglist, popens, cookie_vars, current_value,
                    metric_value, result, ghost_vars >>

(***************************************************************************)
(* _load_varnishstats_json(stdout_string, fieldlist).                      *)
(***************************************************************************)
Load(p) ==
    /\ pc[p] = "load"
    /\ LET result_dict == loads(stdout[p][1])
       IN IF result_dict = None
          THEN /\ Raise(p, "JSONDecodeError")
               /\ UNCHANGED << stats, stdout >>
          ELSE /\ stats' = [stats EXCEPT
                              ![p] = FilterFields(result_dict[1], fieldlist[p])]
               /\ stdout' = [stdout EXCEPT ![p] = None]
               /\ Goto(p, "derive")
    /\ UNCHANGED << suite, store_vars, run_vars, elapsed, output, exit_status,
                    fieldlist, arglist, popens, cookie_vars, current_value,
                    metric_value, result, ghost_vars >>

(***************************************************************************)
(* The metric method after the fetch: the sum of the fetched values, or    *)
(* for cache_hitrate_pct the two subscripts and _get_percentage.           *)
(***************************************************************************)
Derive(p) ==
    /\ pc[p] = "derive"
    /\ CASE Derivation(metric[p]) = "growth" ->
              /\ current_value' = [current_value EXCEPT ![p] = SumValues(stats[p])]
              /\ stats' = [stats EXCEPT ![p] = {}]
              /\ Goto(p, "create_tmp_dir")
              /\ UNCHANGED metric_value
         [] Derivation(metric[p]) = "raw" ->
              /\ current_value' = [current_value EXCEPT ![p] = SumValues(stats[p])]
              /\ metric_value' = [metric_value EXCEPT ![p] = SumValues(stats[p])]
              /\ stats' = [stats EXCEPT ![p] = {}]
              /\ Goto(p, "return")
         [] OTHER ->
              LET hit == DictGet(stats[p], "MAIN.cache_hit")
                  miss == DictGet(stats[p], "MAIN.cache_miss")
              IN IF hit = None \/ miss = None
                 THEN /\ Raise(p, "KeyError")
                      /\ UNCHANGED << current_value, metric_value, stats >>
                 ELSE /\ metric_value' = [metric_value EXCEPT
                            ![p] = GetPercentage(hit[1], hit[1] + miss[1])]
                      /\ Goto(p, "return")
                      /\ UNCHANGED << current_value, stats >>
    /\ UNCHANGED << suite, store_vars, run_vars, elapsed, stdout, output,
                    exit_status, fieldlist, arglist, popens, cookie_vars,
                    result, ghost_vars >>

(***************************************************************************)
(* _get_growth_rate: self._create_tmp_dir().                               *)
(***************************************************************************)
CreateTmpDir(p) ==
    /\ pc[p] = "create_tmp_dir"
    /\ IF TmpDirOf(instance[p]) \in dirs
       THEN /\ Goto(p, "cookie_open")
            /\ UNCHANGED dirs
       ELSE \/ /\ dirs' = dirs \cup {TmpDirOf(instance[p])}
               /\ Goto(p, "cookie_open")
            \/ /\ Raise(p, "PermissionError")
               /\ UNCHANGED dirs
    /\ UNCHANGED << suite, files, lock, run_vars, fetch_vars, cookie_vars,
                    current_value, metric_value, result, ghost_vars >>

(***************************************************************************)
(* _get_growth_rate: with nag.Cookie(statefile=...) as cookie.  Opening    *)
(* creates the file when it is missing, takes the exclusive lock on it and *)
(* loads its data.                                                         *)
(***************************************************************************)
CookieOpen(p) ==
    LET path == RecordOf(instance[p], metric[p]).file
    IN /\ pc[p] = "cookie_open"
       /\ path \notin lock
       /\ files[path] # Partial
       /\ lock' = lock \cup {path}
       /\ files' = IF files[path] = None
                   THEN [files EXCEPT ![path] = Some({})]
                   ELSE files
       /\ cookie' = [cookie EXCEPT
                       ![p] = IF files[path] = None THEN {} ELSE files[path][1]]
       /\ opens' = [opens EXCEPT ![p] = @ + 1]
       /\ Goto(p, "cookie_update")
       /\ UNCHANGED << suite, dirs, run_vars, fetch_vars, current_value,
                       metric_value, result, ghost_vars >>

(***************************************************************************)
(* _get_growth_rate: historic_value = cookie.get(self.metric), the         *)
(* metric_value and cookie[self.metric] = current_value.                   *)
(***************************************************************************)
CookieUpdate(p) ==
    LET key == RecordOf(instance[p], metric[p]).key
        historic_value == DictGet(cookie[p], key)
    IN /\ pc[p] = "cookie_update"
       /\ metric_value' = [metric_value EXCEPT
                             ![p] = GrowthRate(historic_value, current_value[p])]
       /\ cookie' = [cookie EXCEPT ![p] = DictSet(@, key, current_value[p])]
       /\ Goto(p, "commit")
       /\ UNCHANGED << suite, store_vars, run_vars, fetch_vars, opens,
                       current_value, result, ghost_vars >>

(***************************************************************************)
(* _get_growth_rate: cookie.commit().                                      *)
(***************************************************************************)
CookieCommit(p) ==
    LET path == RecordOf(instance[p], metric[p]).file
    IN /\ pc[p] = "commit"
       /\ files' = CommitStore(files, path, cookie[p])
       /\ Goto(p, "cookie_exit")
       /\ UNCHANGED << suite, dirs, lock, run_vars, fetch_vars, cookie_vars,
                       current_value, metric_value, result, ghost_vars >>

(***************************************************************************)
(* _get_growth_rate: the end of the with block.  Cookie.__exit__ commits   *)
(* once more and closes the file, which releases the lock.                 *)
(***************************************************************************)
CookieExit(p) ==
    LET path == RecordOf(instance[p], metric[p]).file
    IN /\ pc[p] = "cookie_exit"
       /\ files' = CommitStore(files, path, cookie[p])
       /\ lock' = lock \ {path}
       /\ Goto(p, "return")
       /\ UNCHANGED << suite, dirs, run_vars, fetch_vars, cookie_vars,
                       current_value, metric_value, result, ghost_vars >>

(***************************************************************************)
(* probe(): the min/max overrides and the nag.Metric it returns.           *)
(***************************************************************************)
Return(p) ==
    /\ pc[p] = "return"
    /\ result' = [result EXCEPT ![p] = Some(
          [name |-> metric[p],
           value |-> metric_value[p],
           uom |-> DefaultUom(metric[p]),
           min |-> IF TruthyNum(minarg[p]) THEN minarg[p] ELSE DefaultMin(metric[p]),
           max |-> IF TruthyNum(maxarg[p]) THEN maxarg[p] ELSE DefaultMax(metric[p])])]
    /\ Goto(p, "done")
    /\ UNCHANGED << suite, store_vars, run_vars, fetch_vars, cookie_vars,
                    current_value, metric_value, ghost_vars >>

(***************************************************************************)
(* The process ends: with the metric handed to nagiosplugin, or with the   *)
(* exception that nag.guarded reports.                                     *)
(***************************************************************************)
Exit(p) ==
    /\ pc[p] \in {"done", "failed"}
    /\ pc' = [pc EXCEPT ![p] = "idle"]
    /\ error' = [error EXCEPT ![p] = ""]
    /\ metric' = [metric EXCEPT ![p] = ""]
    /\ instance' = [instance EXCEPT ![p] = None]
    /\ minarg' = [minarg EXCEPT ![p] = None]
    /\ maxarg' = [maxarg EXCEPT ![p] = None]
    /\ elapsed' = [elapsed EXCEPT ![p] = 0]
    /\ stdout' = [stdout EXCEPT ![p] = None]
    /\ output' = [output EXCEPT ![p] = ""]
    /\ exit_status' = [exit_status EXCEPT ![p] = None]
    /\ stats' = [stats EXCEPT ![p] = {}]
    /\ current_value' = [current_value EXCEPT ![p] = 0]
    /\ cookie' = [cookie EXCEPT ![p] = {}]
    /\ metric_value' = [metric_value EXCEPT ![p] = 0]
    /\ result' = [result EXCEPT ![p] = None]
    /\ popens' = [popens EXCEPT ![p] = 0]
    /\ opens' = [opens EXCEPT ![p] = 0]
    /\ fieldlist' = [fieldlist EXCEPT ![p] = {}]
    /\ arglist' = [arglist EXCEPT ![p] = NoArgList]
    /\ files0' = [files0 EXCEPT ![p] = NoFiles]
    /\ dirs0' = [dirs0 EXCEPT ![p] = {}]
    /\ UNCHANGED << suite, store_vars >>

(***************************************************************************)
(* Spec: the scheduler starts one run after the other (no two runs         *)
(* overlap), each for a metric of the suite and any instance.              *)
(***************************************************************************)
SeqProcs == {"p1"}

Next ==
    \E p \in SeqProcs :
        \/ /\ \E m \in suite, inst \in Instances : Main(p, m, inst, None, None)
           /\ UNCHANGED hist_vars
        \/ NewContext(p)
        \/ Probe(p)
        \/ Popen(p)
        \/ Tick(p)
        \/ Communicate(p)
        \/ Wait(p)
        \/ Load(p)
        \/ Derive(p)
        \/ CreateTmpDir(p)
        \/ CookieOpen(p)
        \/ CookieUpdate(p)
        \/ CookieCommit(p)
        \/ CookieExit(p)
        \/ Return(p)
        \/ /\ Exit(p)
           /\ UNCHANGED hist_vars

Spec == Init /\ [][Next]_vars

\* the steps of a run that has started
RunSteps(p) ==
    \/ NewContext(p)
    \/ Probe(p)
    \/ Popen(p)
    \/ Tick(p)
    \/ Communicate(p)
    \/ Wait(p)
    \/ Load(p)
    \/ Derive(p)
    \/ CreateTmpDir(p)
    \/ CookieOpen(p)
    \/ CookieUpdate(p)
    \/ CookieCommit(p)
    \/ CookieExit(p)
    \/ Return(p)

(***************************************************************************)
(* Runs with --min and --max.  The caller hands min and max to             *)
(* CheckVarnishHealth.__init__, which stores them as they are; the values  *)
(* are no bound, 0 and a positive number.  The metrics are the percentage, *)
(* whose default max is 100, and a rate, which has no default max.         *)
(***************************************************************************)
BoundArgs == { None } \cup { Some(b) : b \in { 0, 50 * MaxVal } }

BoundsSuite == { "cache_hitrate_pct", "cache_hitforpass_rate" }

InitBounds == Init /\ suite = BoundsSuite

NextBounds ==
    \E p \in SeqProcs :
        \/ /\ \E m \in suite, lo \in BoundArgs, hi \in BoundArgs :
                 Main(p, m, None, lo, hi)
           /\ UNCHANGED hist_vars
        \/ RunSteps(p)
        \/ /\ Exit(p)
           /\ UNCHANGED hist_vars

SpecBounds == InitBounds /\ [][NextBounds]_vars

(***************************************************************************)
(* Runs in which the state store fails or the process is killed.           *)
(* _get_growth_rate has no except clause: whatever nag.Cookie raises       *)
(* leaves the with block, which closes the file, and ends the run.         *)
(***************************************************************************)
\* an exception of the store that is swallowed: the run goes on to return
Propagate_swallowed(p, exc) ==
    /\ Goto(p, "return")

Propagate(p, exc) ==
    /\ Raise(p, exc)

\* with nag.Cookie(...): the state file cannot be opened
CookieOpenFails(p) ==
    /\ pc[p] = "cookie_open"
    /\ opens' = [opens EXCEPT ![p] = @ + 1]
    /\ Propagate(p, "IOError")
    /\ UNCHANGED << suite, store_vars, run_vars, fetch_vars, cookie,
                    current_value, metric_value, result, ghost_vars >>

\* with nag.Cookie(...): the state file holds no JSON text; Cookie.open
\* truncates the file and raises ValueError
CookieLoadFails(p) ==
    LET path == RecordOf(instance[p], metric[p]).file
    IN /\ pc[p] = "cookie_open"
       /\ path \notin lock
       /\ files[path] = Partial
       /\ files' = [files EXCEPT ![path] = Some({})]
       /\ opens' = [opens EXCEPT ![p] = @ + 1]
       /\ Propagate(p, "ValueError")
       /\ UNCHANGED << suite, dirs, lock, run_vars, fetch_vars, cookie,
                       current_value, metric_value, result, ghost_vars >>

\* cookie.commit(), or the commit of Cookie.__exit__, fails while it
\* writes; the file is closed, which releases the lock
CookieCommitFails(p) ==
    LET path == RecordOf(instance[p], metric[p]).file
    IN /\ pc[p] \in {"commit", "cookie_exit"}
       /\ files' \in CutShort(files, path, cookie[p])
       /\ lock' = lock \ {path}
       /\ Propagate(p, "IOError")
       /\ UNCHANGED << suite, dirs, run_vars, fetch_vars, cookie_vars,
                       current_value, metric_value, result, ghost_vars >>

\* the process is killed (or the host goes down) in the middle of a run;
\* a commit that was under way is cut short, and the lock goes with the
\* process
Kill(p) ==
    LET path == RecordOf(instance[p], metric[p]).file
    IN /\ pc[p] \notin {"idle", "done", "failed"}
       /\ files' \in IF pc[p] \in {"commit", "cookie_exit"}
                     THEN CutShort(files, path, cookie[p])
                     ELSE {files}
       /\ lock' = IF pc[p] \in {"cookie_update", "commit", "cookie_exit"}
                  THEN lock \ {path}
                  ELSE lock
       /\ Raise(p, "SIGKILL")
       /\ UNCHANGED << suite, dirs, run_vars, fetch_vars, cookie_vars,
                       current_value, metric_value, result, ghost_vars >>

FaultsSuite == { "cached_objects_expired_rate" }

InitFaults == Init /\ suite = FaultsSuite

NextFaults ==
    \E p \in SeqProcs :
        \/ /\ \E m \in suite : Main(p, m, None, None, None)
           /\ UNCHANGED hist_vars
        \/ RunSteps(p)
        \/ CookieOpenFails(p)
        \/ CookieLoadFails(p)
        \/ CookieCommitFails(p)
        \/ Kill(p)
        \/ /\ Exit(p)
           /\ UNCHANGED hist_vars

SpecFaults == InitFaults /\ [][NextFaults]_vars

(***************************************************************************)
(* Runs of one rate metric on one key, one after the other, with the       *)
(* history of what they fetched and returned.  A run that ends with        *)
(* probe() having returned adds to the history; a run that failed does     *)
(* not.                                                                    *)
(***************************************************************************)
\* the run p has returned a metric that came from _get_growth_rate
ReturnedRate(p) ==
    pc[p] = "done" /\ Derivation(metric[p]) = "growth"

HistoryExit(p) ==
    /\ IF ReturnedRate(p)
       THEN /\ last_sample' = Some(current_value[p])
            /\ first_sample' = IF first_sample = None
                               THEN Some(current_value[p])
                               ELSE first_sample
            /\ sum_reported' = sum_reported + result[p][1].value
       ELSE UNCHANGED << last_sample, first_sample, sum_reported >>
    /\ UNCHANGED << overlapped, settled, group, counter >>

HistorySuite == { "threads_creation_rate" }

InitHistory == Init /\ suite = HistorySuite

NextHistory ==
    \E p \in SeqProcs :
        \/ /\ \E m \in suite : Main(p, m, None, None, None)
           /\ UNCHANGED hist_vars
        \/ RunSteps(p)
        \/ /\ Exit(p)
           /\ HistoryExit(p)

SpecHistory == InitHistory /\ [][NextHistory]_vars

(***************************************************************************)
(* Two processes on one key whose runs may overlap: the monitoring system  *)
(* starts the plugin again while an earlier run is still under way.  The   *)
(* lock of nag.Cookie covers the with block only; varnishstat is run       *)
(* before it.                                                              *)
(***************************************************************************)
\* the other processes that are in a run
Busy(p) == { q \in Procs \ {p} : pc[q] # "idle" }

\* a run that starts while another is under way overlaps it; the runs that
\* have overlapped and returned a rate since two runs last met are the group
OverlapMain(p) ==
    /\ overlapped' = IF Busy(p) = {}
                     THEN [overlapped EXCEPT ![p] = FALSE]
                     ELSE [q \in Procs |->
                             IF q = p \/ q \in Busy(p) THEN TRUE
                                                      ELSE overlapped[q]]
    /\ group' = IF Busy(p) # {} /\ (\A q \in Busy(p) : ~overlapped[q])
                THEN {}
                ELSE group
    /\ UNCHANGED << last_sample, first_sample, sum_reported, settled, counter >>

OverlapExit(p) ==
    /\ IF ReturnedRate(p)
       THEN /\ last_sample' = Some(current_value[p])
            /\ settled' = ~overlapped[p]
            /\ group' = IF overlapped[p]
                        THEN group \cup {current_value[p]}
                        ELSE {}
       ELSE UNCHANGED << last_sample, settled, group >>
    /\ overlapped' = [overlapped EXCEPT ![p] = FALSE]
    /\ UNCHANGED << first_sample, sum_reported, counter >>

\* varnishstat answers without delay and ends with status 0: neither the
\* time it takes nor its exit status has a part in what the run does next
PromptSteps(p) ==
    /\ RunSteps(p)
    /\ elapsed' = elapsed
    /\ exit_status'[p] \in { None, Some(0) }

OverlapSuite == { "cached_objects_nuked_rate" }

InitOverlap == Init /\ suite = OverlapSuite

NextOverlap ==
    \E p \in Procs :
        \/ /\ \E m \in suite : Main(p, m, None, None, None)
           /\ OverlapMain(p)
        \/ PromptSteps(p)
        \/ /\ Exit(p)
           /\ OverlapExit(p)

SpecOverlap == InitOverlap /\ [][NextOverlap]_vars

(***************************************************************************)
(* Two processes on one key against a counter that only grows: what        *)
(* varnishstat prints, when it prints JSON, is the counter as it is at     *)
(* that moment.                                                            *)
(***************************************************************************)
Grow ==
    /\ counter < MaxVal
    /\ counter' = counter + 1
    /\ UNCHANGED << suite, store_vars, run_vars, pc, error, fetch_vars,
                    cookie_vars, current_value, metric_value, result, files0,
                    dirs0, overlapped, last_sample, first_sample, sum_reported,
                    settled, group >>

\* the output shows every field asked for with the value of the counter
ShowsCounter(out, fields) ==
    out.json => out.body = { <<f, counter>> : f \in fields } \cup {Timestamp}

MonotoneMain(p) ==
    /\ overlapped' = IF Busy(p) = {}
                     THEN [overlapped EXCEPT ![p] = FALSE]
                     ELSE [q \in Procs |->
                             IF q = p \/ q \in Busy(p) THEN TRUE
                                                      ELSE overlapped[q]]
    /\ UNCHANGED << last_sample, first_sample, sum_reported, settled, group,
                    counter >>

MonotoneExit(p) ==
    /\ overlapped' = [overlapped EXCEPT ![p] = FALSE]
    /\ UNCHANGED << last_sample, first_sample, sum_reported, settled, group,
                    counter >>

MonotoneSuite == { "backend_connection_rate" }

InitMonotone == Init /\ suite = MonotoneSuite

NextMonotone ==
    \/ Grow
    \/ \E p \in Procs :
        \/ /\ \E m \in suite : Main(p, m, None, None, None)
           /\ MonotoneMain(p)
        \/ /\ PromptSteps(p)
           /\ stdout'[p] # None => ShowsCounter(stdout'[p][1], arglist[p].f)
        \/ /\ Exit(p)
           /\ MonotoneExit(p)

SpecMonotone == InitMonotone /\ [][NextMonotone]_vars

(***************************************************************************)
(* Properties.                                                             *)
(***************************************************************************)
Abs(x) == IF x < 0 THEN -x ELSE x

\* the run p has returned a metric
Done(p) == pc[p] = "done"

\* the value of the nag.Metric the run p returned
Reported(p) == result[p][1].value

\* the baseline of the run's own key before the run and now
OwnBaseline0(p) == Baseline(files0[p], instance[p], metric[p])
OwnBaseline(p) == Baseline(files, instance[p], metric[p])

C2_DeltaAndReplace ==
    \A p \in Procs :
        (Done(p) /\ metric[p] \in RateMetrics /\ OwnBaseline0(p) # None)
        => /\ Reported(p) = current_value[p] - OwnBaseline0(p)[1]
           /\ OwnBaseline(p) = Some(current_value[p])

\* a run after a counter reset: a negative value is reported and the
\* smaller sum replaces the baseline
C2_Witness ==
    \E p \in Procs :
        /\ Done(p)
        /\ metric[p] \in RateMetrics
        /\ OwnBaseline0(p) # None
        /\ Reported(p) < 0
        /\ OwnBaseline(p) = Some(current_value[p])
        /\ OwnBaseline(p) # OwnBaseline0(p)

\* C3: a run whose varnishstat output is no JSON produces no metric and
\* leaves every state file and directory as it was when the run started; it
\* opens no state file.
C3_MalformedOutputFails ==
    \A p \in Procs :
        output[p] = "garbage"
        => /\ ~Done(p)
           /\ result[p] = None
           /\ opens[p] = 0
           /\ files = files0[p]
           /\ dirs = dirs0[p]

\* a run of a rate metric that failed on malformed output while a record
\* of an earlier run exists
C3_Witness ==
    \E p \in Procs :
        /\ pc[p] = "failed"
        /\ error[p] = "JSONDecodeError"
        /\ output[p] = "garbage"
        /\ metric[p] \in RateMetrics
        /\ OwnBaseline(p) # None

\* C4: for every metric of the registry, after a well-formed response the
\* evaluation never raises over a requested field that is absent from it:
\* no KeyError, and the only failure left is the state directory's.
C4_MissingFieldTolerated ==
    \A p \in Procs :
        output[p] = "json"
        => /\ pc[p] = "failed" => error[p] = "PermissionError"
           /\ error[p] # "KeyError"

\* C5: the wait for varnishstat is bounded by the timeout: no run is still
\* blocked on the external process after more than WaitTimeout time units.
C5_WaitBounded ==
    \A p \in Procs :
        pc[p] = "communicate" => elapsed[p] <= WaitTimeout

\* C6: a run for a name that is not in the registry never returns a metric,
\* never starts varnishstat, never opens a state file and changes no state
\* file or directory.
C6_UnknownMetricFailsFirst ==
    \A p \in Procs :
        (pc[p] # "idle" /\ metric[p] \notin fmt_helper)
        => /\ ~Done(p)
           /\ pc[p] \notin {"popen", "communicate", "create_tmp_dir", "cookie_open"}
           /\ popens[p] = 0
           /\ opens[p] = 0
           /\ files = files0[p]
           /\ dirs = dirs0[p]

\* the run for the name of a helper method has failed in the context's
\* constructor
C6_Witness ==
    \E p \in Procs :
        /\ pc[p] = "failed"
        /\ metric[p] = "_create_tmp_dir"
        /\ error[p] = "ValueError"
        /\ popens[p] = 0
        /\ dirs = dirs0[p]

\* C7: a run for one instance never changes the baseline that a run for a
\* different instance identity (the unnamed one included) reads for the same
\* metric.
C7_InstancesIsolated ==
    \A p \in Procs :
        pc[p] # "idle"
        => \A other \in Instances \ {instance[p]} :
              Baseline(files, other, metric[p])
                = Baseline(files0[p], other, metric[p])

\* C8: a run for one metric leaves the persisted baseline of every other
\* metric, for every instance, as it was when the run started.
C8_OtherMetricsUntouched ==
    \A p \in Procs :
        pc[p] # "idle"
        => \A m \in suite \ {metric[p]} : \A inst \in Instances :
              Baseline(files, inst, m) = Baseline(files0[p], inst, m)

\* a run that replaced its own baseline while another rate metric has a
\* baseline for the same instance
C8_Witness ==
    \E p \in Procs :
        /\ Done(p)
        /\ metric[p] \in RateMetrics
        /\ OwnBaseline0(p) # None
        /\ OwnBaseline(p) # OwnBaseline0(p)
        /\ \E m \in (suite \cap RateMetrics) \ {metric[p]} :
              Baseline(files, instance[p], m) # None

\* C9: cache_hitrate_pct reports 0 when hit + miss = 0 and otherwise the
\* hundredth of a percent nearest to hit / (hit + miss) * 100 (25.0 for a
\* quarter); the value lies between 0 and 100.
C9_Percentage ==
    \A p \in Procs :
        (Done(p) /\ metric[p] = "cache_hitrate_pct")
        => LET hit == DictGet(stats[p], "MAIN.cache_hit")[1]
               miss == DictGet(stats[p], "MAIN.cache_miss")[1]
               total == hit + miss
               v == Reported(p)
           IN /\ total = 0 => v = 0
              /\ total > 0 => 2 * Abs(v * total - 10000 * hit) <= total
              /\ (total > 0 /\ 4 * hit = total) => v = 2500
              /\ 0 <= v /\ v <= 10000

\* two hits and one miss are reported as 66.67, rounded up
C9_Witness ==
    \E p \in Procs :
        /\ Done(p)
        /\ metric[p] = "cache_hitrate_pct"
        /\ DictGet(stats[p], "MAIN.cache_hit") = Some(2)
        /\ DictGet(stats[p], "MAIN.cache_miss") = Some(1)
        /\ Reported(p) = 6667

\* C10: a run whose varnishstat ended with a non-zero exit status returns
\* no metric and writes no state file.
C10_NonZeroExitFails ==
    \A p \in Procs :
        (exit_status[p] # None /\ exit_status[p][1] # 0)
        => /\ ~Done(p)
           /\ result[p] = None
           /\ files = files0[p]

\* the labels of a run that has started varnishstat
AfterPopen ==
    { "communicate", "wait", "load", "derive", "create_tmp_dir", "cookie_open",
      "cookie_update", "commit", "cookie_exit", "return", "done" }

\* C11: a run for a registered metric starts varnishstat exactly once, with
\* one -f argument for each field the metric sums and for no other field,
\* and opens its state file at most once; a run that failed has started
\* varnishstat at most once and opened the state file at most once, and a
\* run for an unregistered name has started nothing.
C11_OneFetchOneOpen ==
    \A p \in Procs :
        /\ popens[p] <= 1
        /\ opens[p] <= 1
        /\ (pc[p] \in AfterPopen
              \/ (pc[p] = "failed" /\ metric[p] \in fmt_helper))
           => /\ popens[p] = 1
              /\ arglist[p].f = RequiredFields(metric[p])
              /\ arglist[p].j /\ arglist[p].once
        /\ (pc[p] = "failed" /\ metric[p] \notin fmt_helper)
           => popens[p] = 0 /\ opens[p] = 0
        /\ Done(p) => opens[p] = (IF Derivation(metric[p]) = "growth"
                                  THEN 1 ELSE 0)

\* a run for the four 4xx counters whose varnishstat output could not be
\* parsed: it failed after one start of varnishstat and opened nothing
C11_Witness ==
    \E p \in Procs :
        /\ pc[p] = "failed"
        /\ error[p] = "JSONDecodeError"
        /\ metric[p] = "client_bad_request_rate"
        /\ popens[p] = 1
        /\ opens[p] = 0
        /\ arglist[p].f = { "MAIN.client_req_400", "MAIN.client_req_411",
                            "MAIN.client_req_413", "MAIN.client_req_417" }

\* the hundredth of a percent nearest to hit / (hit + miss) * 100, 0 when
\* hit + miss = 0
IsPercentageOf(v, hit, miss) ==
    IF hit + miss = 0
    THEN v = 0
    ELSE 2 * Abs(v * (hit + miss) - 10000 * hit) <= hit + miss

\* C12: a run of cache_hitrate_pct opens no state file, creates no
\* directory and leaves every state file as it was, and the value it
\* returns is the percentage of the sample it fetched, whatever the state
\* files hold.
C12_PercentageIsStateless ==
    \A p \in Procs :
        (metric[p] = "cache_hitrate_pct" /\ pc[p] # "idle")
        => /\ opens[p] = 0
           /\ files = files0[p]
           /\ dirs = dirs0[p]
           /\ lock = {}
           /\ Done(p) =>
                 IsPercentageOf(Reported(p),
                                DictGet(stats[p], "MAIN.cache_hit")[1],
                                DictGet(stats[p], "MAIN.cache_miss")[1])

\* a percentage returned while another metric of the same instance has a
\* baseline on disk
C12_Witness ==
    \E p \in Procs :
        /\ Done(p)
        /\ metric[p] = "cache_hitrate_pct"
        /\ Reported(p) = 5000
        /\ Baseline(files, instance[p], "cache_hitforpass_rate") = Some(2)
        /\ files = files0[p]

C18_BackendFailedIsNotBackendReq ==
    \A p \in Procs :
        (Done(p) /\ metric[p] = "backend_failed_request_rate")
        => /\ arglist[p].f # RequiredFields("backend_request_rate")
           /\ (OwnBaseline0(p) # None /\ arglist[p].f = {"MAIN.backend_req"})
              => Reported(p) = 0

\* C15: the metric a run returns carries the min the caller supplied in
\* place of the default min and the max the caller supplied in place of the
\* default max, for every supplied number, 0 too; the value and the
\* baseline the run leaves are those of a run without bounds.
C15_SuppliedBoundsCarried ==
    \A p \in Procs :
        Done(p)
        => /\ minarg[p] # None => result[p][1].min = minarg[p]
           /\ maxarg[p] # None => result[p][1].max = maxarg[p]
           /\ metric[p] = "cache_hitforpass_rate"
              => /\ Reported(p) = IF OwnBaseline0(p) = None THEN 0
                                  ELSE current_value[p] - OwnBaseline0(p)[1]
                 /\ OwnBaseline(p) = Some(current_value[p])

\* the state file of the run's own key
OwnFile(p) == files[RecordOf(instance[p], metric[p]).file]

\* C13: a run of a metric that goes through _get_growth_rate returns a
\* metric only with the state directory in place and the sum it fetched
\* readable in the state file as the baseline; a run whose directory could
\* not be made or whose state file could not be opened, loaded or written
\* returns no metric.
C13_NoResultWithoutPersistedBaseline ==
    \A p \in Procs :
        /\ (Done(p) /\ metric[p] \in RateMetrics \ {"session_queue_rate"})
           => /\ TmpDirOf(instance[p]) \in dirs
              /\ OwnFile(p) # Partial
              /\ OwnBaseline(p) = Some(current_value[p])
        /\ error[p] \in {"PermissionError", "IOError", "ValueError"}
           => ~Done(p) /\ result[p] = None

\* a run that computed a delta of 1 and failed in the commit: it returned
\* nothing
C13_Witness ==
    \E p \in Procs :
        /\ pc[p] = "failed"
        /\ error[p] = "IOError"
        /\ opens[p] = 1
        /\ metric_value[p] = 1
        /\ OwnBaseline(p) # Some(current_value[p])
        /\ result[p] = None

\* C14: after a run of a rate metric was killed between opening its state
\* file and the end of the commit, the state file is readable and the
\* baseline in it is the one the run found or the sum the run fetched.
C14_InterruptKeepsBaseline ==
    \A p \in Procs :
        (error[p] = "SIGKILL" /\ opens[p] = 1)
        => /\ OwnFile(p) # Partial
           /\ OwnBaseline(p) \in { OwnBaseline0(p), Some(current_value[p]) }

\* C19: after any number of successful runs of one rate metric on one key,
\* one after the other and starting with no state file, with failed runs
\* anywhere in between, the values returned add up to the sum the last
\* successful run fetched minus the sum the first one fetched, and once the
\* last run has ended the baseline is the sum it fetched.
C19_ReportedValuesTelescope ==
    first_sample # None
    => /\ sum_reported = last_sample[1] - first_sample[1]
       /\ (\A p \in SeqProcs : pc[p] = "idle")
          => Baseline(files, None, "threads_creation_rate") = last_sample

\* the counter went from 2 down to 0 and up to 1: the values returned,
\* 0, -2 and 1, add up to -1, and a run that failed came after them
C19_Witness ==
    /\ first_sample = Some(2)
    /\ last_sample = Some(1)
    /\ sum_reported = -1
    /\ Baseline(files, None, "threads_creation_rate") = Some(1)
    /\ \E p \in SeqProcs : pc[p] = "failed" /\ error[p] = "JSONDecodeError"

\* every process is between two runs
AllIdle == \A p \in Procs : pc[p] = "idle"

\* C17: when runs on one key have overlapped and all have ended, the
\* baseline is the sum one of the overlapped runs fetched; and a run that
\* overlaps no other and comes after a run that overlapped no other
\* returns the sum it fetched minus the sum that run fetched.
C17_OverlapDisturbsOneCycle ==
    /\ (AllIdle /\ group # {})
       => Baseline(files, None, "cached_objects_nuked_rate")
             \in { Some(x) : x \in group }
    /\ \A p \in Procs :
          (ReturnedRate(p) /\ ~overlapped[p] /\ settled)
          => Reported(p) = current_value[p] - last_sample[1]

\* two overlapped runs fetched 1 and 2 and both returned; the one that
\* ended last is not the one that wrote last
C17_Witness ==
    /\ AllIdle
    /\ group = {1, 2}
    /\ last_sample = Some(2)
    /\ Baseline(files, None, "cached_objects_nuked_rate") = Some(1)

\* C20 as stated: against a counter that only grows, every run that
\* returns a rate returns a value >= 0, and no run is about to commit a
\* baseline below the one in the state file, however the runs on the key
\* interleave.
C20_MonotoneNeverNegative ==
    \A p \in Procs :
        /\ ReturnedRate(p) => Reported(p) >= 0
        /\ (pc[p] = "commit" /\ OwnBaseline(p) # None)
           => current_value[p] >= OwnBaseline(p)[1]

\* C20 as amended: against a counter that only grows, every run that
\* overlaps no other run on its key returns a value >= 0 and commits a
\* baseline that is not below the one in the state file.
C20_MonotoneNeverNegativeAlone ==
    \A p \in Procs :
        ~overlapped[p]
        => /\ ReturnedRate(p) => Reported(p) >= 0
           /\ (pc[p] = "commit" /\ OwnBaseline(p) # None)
              => current_value[p] >= OwnBaseline(p)[1]

\* a run on its own that found the baseline 1, fetched 2 and returned 1
C20_Witness ==
    \E p \in Procs :
        /\ ReturnedRate(p)
        /\ ~overlapped[p]
        /\ counter = 2
        /\ OwnBaseline0(p) = Some(1)
        /\ Reported(p) = 1
        /\ OwnBaseline(p) = Some(2)

====
